---- MODULE Spec2Model ----
(***************************************************************************)
(* Model of eaglemk4_nn_controller/controller.py: the Controller object,   *)
(* its constructor, the dispatch loop run, run_training, run_testing and   *)
(* _wait_autopilot, together with the externally owned environment flags   *)
(* and the two checkpoint files under the model directory.                 *)
(*                                                                         *)
(* The controller is one thread of control; pc is its position.  Every     *)
(* action is one statement group of controller.py between two points at    *)
(* which the environment (another party) can change its flags.             *)
(***************************************************************************)
EXTENDS Integers, Sequences, FiniteSets, TLC

\* ---------------------------------------------------------------- bounds
MaxSkip == 2        \* configured nn_controller/ddpg_skip_episodes is in 0..MaxSkip
MaxEpisode == 4     \* at most MaxEpisode learn calls per training session
MaxSessions == 2    \* at most MaxSessions training sessions per process

\* ------------------------------------------------------------- constants
Absent == -1        \* a checkpoint file that does not exist
Preexisting == 0    \* a checkpoint file left by an earlier process
                    \* k >= 1: the file written by the save of session k

VARIABLES
  pc,                 \* position of the controller's thread of control
  wait_ret,           \* where the running _wait_autopilot call returns to
  is_training,        \* env.unwrapped.is_training()   (owned by the env)
  is_testing,         \* env.unwrapped.is_testing()    (owned by the env)
  is_autopilot,       \* env.unwrapped.is_autopilot()  (owned by the env)
  model_path_exists,  \* os.path.exists(self.model_path)
  ddpg_file,          \* <model_path>/ddpg.pkl : Absent, Preexisting or k
  vae_file,           \* <model_path>/vae.ckpt : Absent, Preexisting or k
  env_made,           \* self.env has been created by gym.make
  vae,                \* self.vae  : [kind, gen]
  ddpg,               \* self.ddpg : [kind, gen]
  cfg_skip,           \* the parameter nn_controller/ddpg_skip_episodes
  ddpg_skip_episodes, \* self.ddpg_skip_episodes (-1 before it is read)
  episode,            \* local of run_training
  do_ddpg_training,   \* local of run_training
  session,            \* number of run_training calls entered so far
  op,                 \* the operation performed by the latest step
  learn_arg,          \* do_ddpg_training passed to the latest learn call
  learn_ep,           \* episode number of the latest learn call (0: none)
  sess_saves_ddpg,    \* ddpg.save calls since the latest run_training entry
  sess_saves_vae,     \* vae.save calls since the latest run_training entry
  armed_seen,         \* is_autopilot() has returned True at least once
  run_entered,        \* run() has been entered
  startup,            \* existence of the two files when __init__ started
  test_entry_both,    \* result of _any_precompiled_models() at line 145
  learn_sess,         \* session of the latest learn call (0: none)
  slept,              \* a time.sleep has run since the latest sample of a
                      \* mode flag (is_training, is_testing, is_autopilot)
  armed_since_learn,  \* is_autopilot() has returned True since the latest
                      \* learn call
  sess_loads_ddpg,    \* DDPG.load calls since the latest run_testing entry
  sess_loads_vae,     \* vae.load calls since the latest run_testing entry
  done                \* local of run_testing: the flag of the latest env.step

vars == <<pc, wait_ret, is_training, is_testing, is_autopilot,
          model_path_exists, ddpg_file, vae_file, env_made, vae, ddpg,
          cfg_skip, ddpg_skip_episodes, episode, do_ddpg_training, session,
          op, learn_arg, learn_ep, sess_saves_ddpg, sess_saves_vae,
          armed_seen, run_entered, startup, test_entry_both, learn_sess,
          slept, armed_since_learn, sess_loads_ddpg, sess_loads_vae, done>>

envFlags == <<is_training, is_testing, is_autopilot>>
files == <<ddpg_file, vae_file>>
models == <<vae, ddpg>>
trainLocals == <<episode, do_ddpg_training>>
learnHist == <<learn_arg, learn_ep, learn_sess>>
saveHist == <<sess_saves_ddpg, sess_saves_vae>>
fixed == <<model_path_exists, cfg_skip, startup>>
loadHist == <<sess_loads_ddpg, sess_loads_vae>>
quiet == <<slept, armed_since_learn, sess_loads_ddpg, sess_loads_vae, done>>

NoModel == [kind |-> "none", gen |-> Absent]
FreshModel == [kind |-> "fresh", gen |-> Absent]
LoadedModel(g) == [kind |-> "loaded", gen |-> g]

\* _any_precompiled_models with `or` in place of `and`
AnyPrecompiledModelsEither == ddpg_file # Absent \/ vae_file # Absent

\* Controller._any_precompiled_models
AnyPrecompiledModels == ddpg_file # Absent /\ vae_file # Absent

\* the skip test with >= in place of >
DoDdpgTrainingGeq(ep, skip, cur) == IF ep >= skip THEN TRUE ELSE cur

\* run_training lines 130-131: the sticky do_ddpg_training flag
DoDdpgTraining(ep, skip, cur) == IF ep > skip THEN TRUE ELSE cur

Init ==
  /\ pc = "init_check_path"
  /\ wait_ret = "none"
  /\ is_training \in BOOLEAN
  /\ is_testing \in BOOLEAN
  /\ is_autopilot \in BOOLEAN
  /\ model_path_exists \in BOOLEAN
  /\ ddpg_file \in {Absent, Preexisting}
  /\ vae_file \in {Absent, Preexisting}
  \* files live in the model directory
  /\ (~model_path_exists) => (ddpg_file = Absent /\ vae_file = Absent)
  /\ env_made = FALSE
  /\ vae = NoModel
  /\ ddpg = NoModel
  /\ cfg_skip \in 0..MaxSkip
  /\ ddpg_skip_episodes = -1
  /\ episode = 0
  /\ do_ddpg_training = FALSE
  /\ session = 0
  /\ op = "none"
  /\ learn_arg = FALSE
  /\ learn_ep = 0
  /\ sess_saves_ddpg = 0
  /\ sess_saves_vae = 0
  /\ armed_seen = FALSE
  /\ run_entered = FALSE
  /\ startup = [ddpg |-> ddpg_file # Absent, vae |-> vae_file # Absent]
  /\ test_entry_both = FALSE
  /\ learn_sess = 0
  /\ slept = FALSE
  /\ armed_since_learn = FALSE
  /\ sess_loads_ddpg = 0
  /\ sess_loads_vae = 0
  /\ done = FALSE

\* ------------------------------------------------------------ __init__

\* the existence test with the raise left out
InitCheckPathNoRaise ==
  /\ pc = "init_check_path"
  /\ pc' = "init_make_env"
  /\ op' = "check_path"
  /\ UNCHANGED <<wait_ret, envFlags, files, env_made, models,
                 ddpg_skip_episodes, trainLocals, session, learnHist,
                 saveHist, armed_seen, run_entered, fixed, test_entry_both,
                 quiet>>

\* lines 36-41: resolve model_path, raise when it does not exist
InitCheckPath ==
  /\ pc = "init_check_path"
  /\ pc' = IF model_path_exists THEN "init_make_env" ELSE "raised"
  /\ op' = IF model_path_exists THEN "check_path" ELSE "raise"
  /\ UNCHANGED <<wait_ret, envFlags, files, env_made, models,
                 ddpg_skip_episodes, trainLocals, session, learnHist,
                 saveHist, armed_seen, run_entered, fixed, test_entry_both,
                 quiet>>

\* lines 43-64: gym.make and the parameter reads
InitMakeEnv ==
  /\ pc = "init_make_env"
  /\ env_made' = TRUE
  /\ ddpg_skip_episodes' = cfg_skip
  /\ pc' = "init_build_vae"
  /\ op' = "make_env"
  /\ UNCHANGED <<wait_ret, envFlags, files, models, trainLocals, session,
                 learnHist, saveHist, armed_seen, run_entered, fixed,
                 test_entry_both,
                 quiet>>

\* lines 69-73: VAEController(...) and env.set_vae
InitBuildVae ==
  /\ pc = "init_build_vae"
  /\ vae' = FreshModel
  /\ pc' = "init_models"
  /\ op' = "build_vae"
  /\ UNCHANGED <<wait_ret, envFlags, files, env_made, ddpg,
                 ddpg_skip_episodes, trainLocals, session, learnHist,
                 saveHist, armed_seen, run_entered, fixed, test_entry_both,
                 quiet>>

\* line 75 and lines 80-82: the test, and _init_ddpg in the else branch
InitModels ==
  /\ pc = "init_models"
  /\ IF AnyPrecompiledModels
       THEN /\ pc' = "init_load_ddpg"
            /\ op' = "check_models"
            /\ UNCHANGED <<ddpg, wait_ret>>
       ELSE /\ ddpg' = FreshModel
            /\ op' = "init_ddpg"
            /\ pc' = "wait_sleep"
            /\ wait_ret' = "run"
  /\ UNCHANGED <<envFlags, files, env_made, vae, ddpg_skip_episodes,
                 trainLocals, session, learnHist, saveHist, armed_seen,
                 run_entered, fixed, test_entry_both,
                 quiet>>

\* line 76: DDPG.load(self.ddpg_path, self.env)
InitLoadDdpg ==
  /\ pc = "init_load_ddpg"
  /\ ddpg' = LoadedModel(ddpg_file)
  /\ pc' = "init_load_vae"
  /\ op' = "load_ddpg"
  /\ UNCHANGED <<wait_ret, envFlags, files, env_made, vae,
                 ddpg_skip_episodes, trainLocals, session, learnHist,
                 saveHist, armed_seen, run_entered, fixed, test_entry_both,
                 quiet>>

\* the load of the perception module without the reset of the skip count
InitLoadVaeKeepSkip ==
  /\ pc = "init_load_vae"
  /\ vae' = LoadedModel(vae_file)
  /\ pc' = "wait_sleep"
  /\ wait_ret' = "run"
  /\ op' = "load_vae"
  /\ UNCHANGED <<envFlags, files, env_made, ddpg, ddpg_skip_episodes,
                 trainLocals, session, learnHist, saveHist, armed_seen,
                 run_entered, fixed, test_entry_both,
                 quiet>>

\* lines 77-79 and 85-88: self.vae.load, skip count := 0, enter the wait
InitLoadVae ==
  /\ pc = "init_load_vae"
  /\ vae' = LoadedModel(vae_file)
  /\ ddpg_skip_episodes' = 0
  /\ pc' = "wait_sleep"
  /\ wait_ret' = "run"
  /\ op' = "load_vae"
  /\ UNCHANGED <<envFlags, files, env_made, ddpg, trainLocals, session,
                 learnHist, saveHist, armed_seen, run_entered, fixed,
                 test_entry_both,
                 quiet>>

\* ----------------------------------------------------- _wait_autopilot

\* the wait polling without its sleep
WaitSleepSkipped ==
  /\ pc = "wait_sleep"
  /\ pc' = "wait_sample"
  /\ op' = "no_sleep"
  /\ UNCHANGED <<wait_ret, envFlags, files, env_made, models,
                 ddpg_skip_episodes, trainLocals, session, learnHist,
                 saveHist, armed_seen, run_entered, fixed, test_entry_both,
                 quiet>>

\* line 178: time.sleep(1 / self.HZ)
WaitSleep ==
  /\ pc = "wait_sleep"
  /\ slept' = TRUE
  /\ pc' = "wait_sample"
  /\ op' = "sleep"
  /\ UNCHANGED <<wait_ret, envFlags, files, env_made, models,
                 ddpg_skip_episodes, trainLocals, session, learnHist,
                 saveHist, armed_seen, run_entered, fixed, test_entry_both,
                 armed_since_learn, sess_loads_ddpg, sess_loads_vae, done>>

\* where _wait_autopilot returns to: line 91 (run) or line 129
WaitReturnPc == IF wait_ret = "run" THEN "run_head" ELSE "train_head"

\* the wait returning after one sleep, whatever the flag
WaitSampleNoCheck ==
  /\ pc = "wait_sample"
  /\ slept' = FALSE
  /\ armed_since_learn' = (armed_since_learn \/ is_autopilot)
  /\ op' = "sample_autopilot"
  /\ armed_seen' = (armed_seen \/ is_autopilot)
  /\ pc' = WaitReturnPc
  /\ wait_ret' = "none"
  /\ run_entered' = (run_entered \/ wait_ret = "run")
  /\ UNCHANGED <<envFlags, files, env_made, models, ddpg_skip_episodes,
                 trainLocals, session, learnHist, saveHist, fixed,
                 test_entry_both,
                 sess_loads_ddpg, sess_loads_vae, done>>

\* lines 179-180: return when is_autopilot(), else loop; on the return
\* from the call of line 88, line 91 enters run
WaitSample ==
  /\ pc = "wait_sample"
  /\ slept' = FALSE
  /\ armed_since_learn' = (armed_since_learn \/ is_autopilot)
  /\ op' = "sample_autopilot"
  /\ armed_seen' = (armed_seen \/ is_autopilot)
  /\ IF is_autopilot
       THEN /\ pc' = WaitReturnPc
            /\ wait_ret' = "none"
            /\ run_entered' = (run_entered \/ wait_ret = "run")
       ELSE /\ pc' = "wait_sleep"
            /\ UNCHANGED <<wait_ret, run_entered>>
  /\ UNCHANGED <<envFlags, files, env_made, models, ddpg_skip_episodes,
                 trainLocals, session, learnHist, saveHist, fixed,
                 test_entry_both,
                 sess_loads_ddpg, sess_loads_vae, done>>

\* ------------------------------------------------------------------ run

\* the dispatcher giving the testing task priority
RunSampleTrainingTestFirst ==
  /\ pc = "run_head"
  /\ slept' = FALSE
  /\ (is_training /\ ~is_testing) => session < MaxSessions
  /\ pc' = IF is_testing THEN "test_start"
           ELSE IF is_training THEN "train_start" ELSE "run_sample_testing"
  /\ op' = "sample_training"
  /\ UNCHANGED <<wait_ret, envFlags, files, env_made, models,
                 ddpg_skip_episodes, trainLocals, session, learnHist,
                 saveHist, armed_seen, run_entered, fixed, test_entry_both,
                 armed_since_learn, sess_loads_ddpg, sess_loads_vae, done>>

\* line 119-120: sample is_training, call run_training when it is set
RunSampleTraining ==
  /\ pc = "run_head"
  /\ slept' = FALSE
  /\ is_training => session < MaxSessions
  /\ pc' = IF is_training THEN "train_start" ELSE "run_sample_testing"
  /\ op' = "sample_training"
  /\ UNCHANGED <<wait_ret, envFlags, files, env_made, models,
                 ddpg_skip_episodes, trainLocals, session, learnHist,
                 saveHist, armed_seen, run_entered, fixed, test_entry_both,
                 armed_since_learn, sess_loads_ddpg, sess_loads_vae, done>>

\* the dispatcher leaving its loop when no task is selected
RunSampleTestingExit ==
  /\ pc = "run_sample_testing"
  /\ slept' = FALSE
  /\ pc' = IF is_testing THEN "test_start" ELSE "run_returned"
  /\ op' = "sample_testing"
  /\ UNCHANGED <<wait_ret, envFlags, files, env_made, models,
                 ddpg_skip_episodes, trainLocals, session, learnHist,
                 saveHist, armed_seen, run_entered, fixed, test_entry_both,
                 armed_since_learn, sess_loads_ddpg, sess_loads_vae, done>>

\* lines 121-122: sample is_testing, call run_testing when it is set;
\* otherwise the while True of line 115 iterates
RunSampleTesting ==
  /\ pc = "run_sample_testing"
  /\ slept' = FALSE
  /\ pc' = IF is_testing THEN "test_start" ELSE "run_head"
  /\ op' = "sample_testing"
  /\ UNCHANGED <<wait_ret, envFlags, files, env_made, models,
                 ddpg_skip_episodes, trainLocals, session, learnHist,
                 saveHist, armed_seen, run_entered, fixed, test_entry_both,
                 armed_since_learn, sess_loads_ddpg, sess_loads_vae, done>>

\* --------------------------------------------------------- run_training

\* lines 125-128: episode = 1, do_ddpg_training = False
TrainStart ==
  /\ pc = "train_start"
  /\ episode' = 1
  /\ do_ddpg_training' = FALSE
  /\ session' = session + 1
  /\ sess_saves_ddpg' = 0
  /\ sess_saves_vae' = 0
  /\ pc' = "train_head"
  /\ op' = "train_start"
  /\ UNCHANGED <<wait_ret, envFlags, files, env_made, models,
                 ddpg_skip_episodes, learnHist, armed_seen, run_entered,
                 fixed, test_entry_both,
                 quiet>>

\* the loop exit returning without the saves when no episode ran
TrainHeadSkipEmpty ==
  /\ pc = "train_head"
  /\ slept' = FALSE
  /\ is_training => episode <= MaxEpisode
  /\ pc' = IF is_training THEN "train_learn"
           ELSE IF episode = 1 THEN "run_head" ELSE "train_save_ddpg"
  /\ op' = "sample_training"
  /\ UNCHANGED <<wait_ret, envFlags, files, env_made, models,
                 ddpg_skip_episodes, trainLocals, session, learnHist,
                 saveHist, armed_seen, run_entered, fixed, test_entry_both,
                 armed_since_learn, sess_loads_ddpg, sess_loads_vae, done>>

\* line 129: while self.env.unwrapped.is_training()
TrainHead ==
  /\ pc = "train_head"
  /\ slept' = FALSE
  /\ is_training => episode <= MaxEpisode
  /\ pc' = IF is_training THEN "train_learn" ELSE "train_save_ddpg"
  /\ op' = "sample_training"
  /\ UNCHANGED <<wait_ret, envFlags, files, env_made, models,
                 ddpg_skip_episodes, trainLocals, session, learnHist,
                 saveHist, armed_seen, run_entered, fixed, test_entry_both,
                 armed_since_learn, sess_loads_ddpg, sess_loads_vae, done>>

\* learn followed by a per-episode checkpoint of the policy
TrainLearnCheckpoint ==
  /\ pc = "train_learn"
  /\ armed_since_learn' = FALSE
  /\ do_ddpg_training' =
       DoDdpgTraining(episode, ddpg_skip_episodes, do_ddpg_training)
  /\ learn_arg' = do_ddpg_training'
  /\ learn_ep' = episode
  /\ learn_sess' = session
  /\ episode' = episode + 1
  /\ ddpg_file' = session
  /\ op' = "learn"
  /\ pc' = "wait_sleep"
  /\ wait_ret' = "train"
  /\ UNCHANGED <<envFlags, vae_file, env_made, models, ddpg_skip_episodes,
                 session, saveHist, armed_seen, run_entered, fixed,
                 test_entry_both,
                 sess_loads_ddpg, sess_loads_vae, done, slept>>

\* learn without the _wait_autopilot call of line 136
TrainLearnNoWait ==
  /\ pc = "train_learn"
  /\ armed_since_learn' = FALSE
  /\ do_ddpg_training' =
       DoDdpgTraining(episode, ddpg_skip_episodes, do_ddpg_training)
  /\ learn_arg' = do_ddpg_training'
  /\ learn_ep' = episode
  /\ learn_sess' = session
  /\ episode' = episode + 1
  /\ op' = "learn"
  /\ pc' = "train_head"
  /\ UNCHANGED <<wait_ret, envFlags, files, env_made, models,
                 ddpg_skip_episodes, session, saveHist, armed_seen,
                 run_entered, fixed, test_entry_both,
                 sess_loads_ddpg, sess_loads_vae, done, slept>>

\* lines 130-136: set the flag, learn, episode += 1, enter the wait
TrainLearn ==
  /\ pc = "train_learn"
  /\ armed_since_learn' = FALSE
  /\ do_ddpg_training' =
       DoDdpgTraining(episode, ddpg_skip_episodes, do_ddpg_training)
  /\ learn_arg' = do_ddpg_training'
  /\ learn_ep' = episode
  /\ learn_sess' = session
  /\ episode' = episode + 1
  /\ op' = "learn"
  /\ pc' = "wait_sleep"
  /\ wait_ret' = "train"
  /\ UNCHANGED <<envFlags, files, env_made, models, ddpg_skip_episodes,
                 session, saveHist, armed_seen, run_entered, fixed,
                 test_entry_both,
                 sess_loads_ddpg, sess_loads_vae, done, slept>>

\* the saves placed inside the while loop: after the policy save the
\* loop condition is evaluated again
TrainSaveDdpgInLoop ==
  /\ pc = "train_save_ddpg"
  /\ ddpg_file' = session
  /\ sess_saves_ddpg' = 1
  /\ pc' = IF is_training /\ episode <= MaxEpisode THEN "train_learn"
                                                   ELSE "train_save_vae"
  /\ op' = "save_ddpg"
  /\ UNCHANGED <<wait_ret, envFlags, vae_file, env_made, models,
                 ddpg_skip_episodes, trainLocals, session, learnHist,
                 sess_saves_vae, armed_seen, run_entered, fixed,
                 test_entry_both,
                 quiet>>

\* line 139: self.ddpg.save(self.ddpg_path)
TrainSaveDdpg ==
  /\ pc = "train_save_ddpg"
  /\ ddpg_file' = session
  /\ sess_saves_ddpg' = sess_saves_ddpg + 1
  /\ pc' = "train_save_vae"
  /\ op' = "save_ddpg"
  /\ UNCHANGED <<wait_ret, envFlags, vae_file, env_made, models,
                 ddpg_skip_episodes, trainLocals, session, learnHist,
                 sess_saves_vae, armed_seen, run_entered, fixed,
                 test_entry_both,
                 quiet>>

\* the perception save skipped when no episode ran
TrainSaveVaeIfTrained ==
  /\ pc = "train_save_vae"
  /\ vae_file' = IF episode > 1 THEN session ELSE vae_file
  /\ sess_saves_vae' = IF episode > 1 THEN sess_saves_vae + 1
                                     ELSE sess_saves_vae
  /\ pc' = "run_head"
  /\ op' = IF episode > 1 THEN "save_vae" ELSE "skip_save"
  /\ UNCHANGED <<wait_ret, envFlags, ddpg_file, env_made, models,
                 ddpg_skip_episodes, trainLocals, session, learnHist,
                 sess_saves_ddpg, armed_seen, run_entered, fixed,
                 test_entry_both,
                 quiet>>

\* lines 140-141: self.vae.save(self.vae_path), return to run
TrainSaveVae ==
  /\ pc = "train_save_vae"
  /\ vae_file' = session
  /\ sess_saves_vae' = sess_saves_vae + 1
  /\ pc' = "run_head"
  /\ op' = "save_vae"
  /\ UNCHANGED <<wait_ret, envFlags, ddpg_file, env_made, models,
                 ddpg_skip_episodes, trainLocals, session, learnHist,
                 sess_saves_ddpg, armed_seen, run_entered, fixed,
                 test_entry_both,
                 quiet>>

\* ---------------------------------------------------------- run_testing

\* the two branches of line 145 exchanged
TestStartSwapped ==
  /\ pc = "test_start"
  /\ sess_loads_ddpg' = 0
  /\ sess_loads_vae' = 0
  /\ test_entry_both' = AnyPrecompiledModels
  /\ pc' = IF AnyPrecompiledModels THEN "test_idle_msg" ELSE "test_load_ddpg"
  /\ op' = "test_start"
  /\ UNCHANGED <<wait_ret, envFlags, files, env_made, models,
                 ddpg_skip_episodes, trainLocals, session, learnHist,
                 saveHist, armed_seen, run_entered, fixed,
                 slept, armed_since_learn, done>>

\* lines 144-145: the test of _any_precompiled_models()
TestStart ==
  /\ pc = "test_start"
  /\ sess_loads_ddpg' = 0
  /\ sess_loads_vae' = 0
  /\ test_entry_both' = AnyPrecompiledModels
  /\ pc' = IF AnyPrecompiledModels THEN "test_load_ddpg" ELSE "test_idle_msg"
  /\ op' = "test_start"
  /\ UNCHANGED <<wait_ret, envFlags, files, env_made, models,
                 ddpg_skip_episodes, trainLocals, session, learnHist,
                 saveHist, armed_seen, run_entered, fixed,
                 slept, armed_since_learn, done>>

\* DDPG.load called with its result not bound to self.ddpg
TestLoadDdpgDiscarded ==
  /\ pc = "test_load_ddpg"
  /\ sess_loads_ddpg' = sess_loads_ddpg + 1
  /\ pc' = "test_load_vae"
  /\ op' = "load_ddpg"
  /\ UNCHANGED <<wait_ret, envFlags, files, env_made, models,
                 ddpg_skip_episodes, trainLocals, session, learnHist,
                 saveHist, armed_seen, run_entered, fixed, test_entry_both,
                 slept, armed_since_learn, sess_loads_vae, done>>

\* line 147: self.ddpg = DDPG.load(self.ddpg_path, self.env)
TestLoadDdpg ==
  /\ pc = "test_load_ddpg"
  /\ sess_loads_ddpg' = sess_loads_ddpg + 1
  /\ ddpg' = LoadedModel(ddpg_file)
  /\ pc' = "test_load_vae"
  /\ op' = "load_ddpg"
  /\ UNCHANGED <<wait_ret, envFlags, files, env_made, vae,
                 ddpg_skip_episodes, trainLocals, session, learnHist,
                 saveHist, armed_seen, run_entered, fixed, test_entry_both,
                 slept, armed_since_learn, sess_loads_vae, done>>

\* the reload repeating line 78 of the constructor: skip count := 0
TestLoadVaeResetSkip ==
  /\ pc = "test_load_vae"
  /\ sess_loads_vae' = sess_loads_vae + 1
  /\ vae' = LoadedModel(vae_file)
  /\ ddpg_skip_episodes' = 0
  /\ pc' = "test_head"
  /\ op' = "load_vae"
  /\ UNCHANGED <<wait_ret, envFlags, files, env_made, ddpg,
                 trainLocals, session, learnHist,
                 saveHist, armed_seen, run_entered, fixed, test_entry_both,
                 slept, armed_since_learn, sess_loads_ddpg, done>>

\* line 148: self.vae.load(self.vae_path)
TestLoadVae ==
  /\ pc = "test_load_vae"
  /\ sess_loads_vae' = sess_loads_vae + 1
  /\ vae' = LoadedModel(vae_file)
  /\ pc' = "test_head"
  /\ op' = "load_vae"
  /\ UNCHANGED <<wait_ret, envFlags, files, env_made, ddpg,
                 ddpg_skip_episodes, trainLocals, session, learnHist,
                 saveHist, armed_seen, run_entered, fixed, test_entry_both,
                 slept, armed_since_learn, sess_loads_ddpg, done>>

\* line 149: while self.env.unwrapped.is_testing()
TestHead ==
  /\ pc = "test_head"
  /\ slept' = FALSE
  /\ pc' = IF is_testing THEN "test_reset" ELSE "test_finish"
  /\ op' = "sample_testing"
  /\ UNCHANGED <<wait_ret, envFlags, files, env_made, models,
                 ddpg_skip_episodes, trainLocals, session, learnHist,
                 saveHist, armed_seen, run_entered, fixed, test_entry_both,
                 armed_since_learn, sess_loads_ddpg, sess_loads_vae, done>>

\* line 151: obs = self.env.reset()
TestReset ==
  /\ pc = "test_reset"
  /\ pc' = "test_sleep"
  /\ op' = "reset"
  /\ UNCHANGED <<wait_ret, envFlags, files, env_made, models,
                 ddpg_skip_episodes, trainLocals, session, learnHist,
                 saveHist, armed_seen, run_entered, fixed, test_entry_both,
                 armed_since_learn, sess_loads_ddpg, sess_loads_vae, done, slept>>

\* line 153: time.sleep(1.0 / self.HZ)
TestSleep ==
  /\ pc = "test_sleep"
  /\ slept' = TRUE
  /\ pc' = "test_predict"
  /\ op' = "sleep"
  /\ UNCHANGED <<wait_ret, envFlags, files, env_made, models,
                 ddpg_skip_episodes, trainLocals, session, learnHist,
                 saveHist, armed_seen, run_entered, fixed, test_entry_both,
                 armed_since_learn, sess_loads_ddpg, sess_loads_vae, done>>

\* line 154: self.ddpg.predict(obs)
TestPredict ==
  /\ pc = "test_predict"
  /\ pc' = "test_step"
  /\ op' = "predict"
  /\ UNCHANGED <<wait_ret, envFlags, files, env_made, models,
                 ddpg_skip_episodes, trainLocals, session, learnHist,
                 saveHist, armed_seen, run_entered, fixed, test_entry_both,
                 quiet>>

\* the episode loop also left when the testing flag is cleared
TestStepChecksMode ==
  /\ pc = "test_step"
  /\ \E d \in BOOLEAN :
       /\ done' = d
       /\ pc' = IF d \/ ~is_testing THEN "test_head" ELSE "test_sleep"
  /\ op' = "step"
  /\ UNCHANGED <<wait_ret, envFlags, files, env_made, models,
                 ddpg_skip_episodes, trainLocals, session, learnHist,
                 saveHist, armed_seen, run_entered, fixed, test_entry_both,
                 armed_since_learn, sess_loads_ddpg, sess_loads_vae, slept>>

\* lines 155-159: self.env.step(action); break when done
TestStep ==
  /\ pc = "test_step"
  /\ \E d \in BOOLEAN :
       /\ done' = d
       /\ pc' = IF d THEN "test_head" ELSE "test_sleep"
  /\ op' = "step"
  /\ UNCHANGED <<wait_ret, envFlags, files, env_made, models,
                 ddpg_skip_episodes, trainLocals, session, learnHist,
                 saveHist, armed_seen, run_entered, fixed, test_entry_both,
                 armed_since_learn, sess_loads_ddpg, sess_loads_vae, slept>>

\* lines 161-164: the "No precompiled models found." notice
TestIdleMsg ==
  /\ pc = "test_idle_msg"
  /\ pc' = "test_idle_head"
  /\ op' = "print_no_models"
  /\ UNCHANGED <<wait_ret, envFlags, files, env_made, models,
                 ddpg_skip_episodes, trainLocals, session, learnHist,
                 saveHist, armed_seen, run_entered, fixed, test_entry_both,
                 quiet>>

\* the idle loop written as `if`: one sample, then the session ends
TestIdleHeadOnce ==
  /\ pc = "test_idle_head"
  /\ slept' = FALSE
  /\ pc' = IF op = "sleep" THEN "test_finish"
           ELSE IF is_testing THEN "test_idle_sleep" ELSE "test_finish"
  /\ op' = "sample_testing"
  /\ UNCHANGED <<wait_ret, envFlags, files, env_made, models,
                 ddpg_skip_episodes, trainLocals, session, learnHist,
                 saveHist, armed_seen, run_entered, fixed, test_entry_both,
                 armed_since_learn, sess_loads_ddpg, sess_loads_vae, done>>

\* line 165: while self.env.unwrapped.is_testing()
TestIdleHead ==
  /\ pc = "test_idle_head"
  /\ slept' = FALSE
  /\ pc' = IF is_testing THEN "test_idle_sleep" ELSE "test_finish"
  /\ op' = "sample_testing"
  /\ UNCHANGED <<wait_ret, envFlags, files, env_made, models,
                 ddpg_skip_episodes, trainLocals, session, learnHist,
                 saveHist, armed_seen, run_entered, fixed, test_entry_both,
                 armed_since_learn, sess_loads_ddpg, sess_loads_vae, done>>

\* line 166: time.sleep(1.0 / self.HZ)
TestIdleSleep ==
  /\ pc = "test_idle_sleep"
  /\ slept' = TRUE
  /\ pc' = "test_idle_head"
  /\ op' = "sleep"
  /\ UNCHANGED <<wait_ret, envFlags, files, env_made, models,
                 ddpg_skip_episodes, trainLocals, session, learnHist,
                 saveHist, armed_seen, run_entered, fixed, test_entry_both,
                 armed_since_learn, sess_loads_ddpg, sess_loads_vae, done>>

\* run_testing clearing the testing flag itself when it returns
TestFinishClearsMode ==
  /\ pc = "test_finish"
  /\ pc' = "run_head"
  /\ op' = "test_finish"
  /\ is_testing' = FALSE
  /\ UNCHANGED <<wait_ret, is_training, is_autopilot, files, env_made,
                 models, ddpg_skip_episodes, trainLocals, session, learnHist,
                 saveHist, armed_seen, run_entered, fixed, test_entry_both,
                 quiet>>

\* line 167: print "Testing finished", return to run
TestFinish ==
  /\ pc = "test_finish"
  /\ pc' = "run_head"
  /\ op' = "test_finish"
  /\ UNCHANGED <<wait_ret, envFlags, files, env_made, models,
                 ddpg_skip_episodes, trainLocals, session, learnHist,
                 saveHist, armed_seen, run_entered, fixed, test_entry_both,
                 quiet>>

\* ------------------------------------------------------ the environment

\* the environment adapter (buttons relayed over ROS) changes its flags
EnvChange ==
  /\ pc \notin {"raised", "killed"}
  /\ \E t \in BOOLEAN, s \in BOOLEAN, a \in BOOLEAN :
       /\ <<t, s, a>> # envFlags
       /\ is_training' = t
       /\ is_testing' = s
       /\ is_autopilot' = a
  /\ op' = "env"
  /\ UNCHANGED <<pc, wait_ret, files, env_made, models, ddpg_skip_episodes,
                 trainLocals, session, learnHist, saveHist, armed_seen,
                 run_entered, fixed, test_entry_both,
                 quiet>>

\* the process is terminated from outside (the only way to stop it)
Kill ==
  /\ pc \notin {"raised", "killed"}
  /\ pc' = "killed"
  /\ op' = "kill"
  /\ UNCHANGED <<wait_ret, envFlags, files, env_made, models,
                 ddpg_skip_episodes, trainLocals, session, learnHist,
                 saveHist, armed_seen, run_entered, fixed, test_entry_both,
                 quiet>>

Construct ==
  \/ InitCheckPath
  \/ InitMakeEnv
  \/ InitBuildVae
  \/ InitModels
  \/ InitLoadDdpg
  \/ InitLoadVae

WaitAutopilot ==
  \/ WaitSleep
  \/ WaitSample

Run ==
  \/ RunSampleTraining
  \/ RunSampleTesting

RunTraining ==
  \/ TrainStart
  \/ TrainHead
  \/ TrainLearn
  \/ TrainSaveDdpg
  \/ TrainSaveVae

RunTesting ==
  \/ TestStart
  \/ TestLoadDdpg
  \/ TestLoadVae
  \/ TestHead
  \/ TestReset
  \/ TestSleep
  \/ TestPredict
  \/ TestStep
  \/ TestIdleMsg
  \/ TestIdleHead
  \/ TestIdleSleep
  \/ TestFinish

ControllerStep == Construct \/ WaitAutopilot \/ Run \/ RunTraining \/ RunTesting

Next == ControllerStep \/ EnvChange

Spec == Init /\ [][Next]_vars

NextKill == Next \/ Kill

SpecKill == Init /\ [][NextKill]_vars

\* ddpg.save and vae.save are calls that return: once the controller is at
\* line 139 or line 140 it executes that line
FairSpec == Spec /\ WF_vars(TrainSaveDdpg) /\ WF_vars(TrainSaveVae)

\* ================================================================ claims

ConstructPcs == {"init_check_path", "init_make_env", "init_build_vae",
                 "init_models", "init_load_ddpg", "init_load_vae"}
WaitPcs == {"wait_sleep", "wait_sample"}
RunPcs == {"run_head", "run_sample_testing"}
TrainPcs == {"train_start", "train_head", "train_learn",
             "train_save_ddpg", "train_save_vae"}
TestIdlePcs == {"test_idle_msg", "test_idle_head", "test_idle_sleep"}
TestPcs == {"test_start", "test_load_ddpg", "test_load_vae", "test_head",
            "test_reset", "test_sleep", "test_predict", "test_step",
            "test_finish"} \cup TestIdlePcs
SaveOps == {"save_ddpg", "save_vae"}
LoadOps == {"load_ddpg", "load_vae"}
PolicyOps == {"learn", "predict", "reset", "step"}

\* the controller is inside run_training (its _wait_autopilot included)
InTraining == pc \in TrainPcs \/ (pc \in WaitPcs /\ wait_ret = "train")
\* the controller is in the _wait_autopilot call of line 88
InFirstWait == pc \in WaitPcs /\ wait_ret = "run"
BothAtStartup == startup.ddpg /\ startup.vae
CheckpointMissing == ddpg_file = Absent \/ vae_file = Absent

\* C1: when the model directory does not exist, construction raises and
\* nothing else happens: no env, no VAE, no DDPG, no load, no wait, no run.
C1_MissingDirRaises ==
  (~model_path_exists) =>
     /\ pc \in {"init_check_path", "raised"}
     /\ op \in {"none", "env", "raise"}
     /\ ~env_made
     /\ vae = NoModel
     /\ ddpg = NoModel
     /\ ddpg_skip_episodes = -1
     /\ wait_ret = "none"
     /\ ~run_entered
     /\ (op = "raise" <=> pc = "raised")

C1_Witness == ~model_path_exists /\ pc = "raised" /\ op = "raise"

\* C2: once the training loop has exited, run_training returns having made
\* exactly one ddpg.save and one vae.save; whenever run_training has
\* returned, its session made exactly one save of each (also when no
\* episode ran), the policy save first; and a save, or a change of a
\* checkpoint file, happens only at lines 139-140 of run_training.
C2_SavesOnExit ==
  /\ (pc = "train_save_ddpg") ~>
       (pc = "run_head" /\ op = "save_vae"
        /\ sess_saves_ddpg = 1 /\ sess_saves_vae = 1)
  /\ []((session > 0 /\ ~InTraining) =>
          (sess_saves_ddpg = 1 /\ sess_saves_vae = 1))
  /\ [](pc = "train_save_vae" => (sess_saves_ddpg = 1 /\ sess_saves_vae = 0))
  /\ [][(op' \in SaveOps \/ ddpg_file' # ddpg_file \/ vae_file' # vae_file)
          => pc \in {"train_save_ddpg", "train_save_vae"}]_vars

C2_Witness ==
  /\ pc = "run_head" /\ op = "save_vae"
  /\ episode = 1
  /\ sess_saves_ddpg = 1 /\ sess_saves_vae = 1

\* C3: a learn call for episode e passes do_ddpg_training = (e > skip),
\* and after a learn call that passed True the next one of the session
\* passes True.
C3_SkipPeriod ==
  /\ [](learn_ep > 0 => (learn_arg <=> learn_ep > ddpg_skip_episodes))
  /\ [][(op' = "learn" /\ learn_ep' > 1 /\ learn_ep = learn_ep' - 1
           /\ learn_arg) => learn_arg']_vars

C3_Witness ==
  /\ op = "learn"
  /\ ddpg_skip_episodes >= 1
  /\ learn_ep = ddpg_skip_episodes + 2
  /\ learn_arg

\* C4: with both checkpoint files present at construction, both models
\* are loaded from them, the skip count is zero from then on, and every
\* learn call (so the first of every session) passes True.
C4_PrecompiledLoad ==
  BothAtStartup =>
     /\ pc \notin ConstructPcs =>
          /\ ddpg.kind = "loaded" /\ vae.kind = "loaded"
          /\ ddpg_skip_episodes = 0
          /\ session = 0 => (ddpg.gen = Preexisting /\ vae.gen = Preexisting)
     /\ learn_ep > 0 => learn_arg

C4_Witness ==
  /\ BothAtStartup
  /\ cfg_skip > 0
  /\ session = 2
  /\ op = "learn" /\ learn_ep = 1 /\ learn_arg

\* C5: with a checkpoint file missing at construction (none or exactly
\* one present) construction loads nothing, ends with a fresh policy and a
\* fresh perception module, and the skip count is the configured one.
C5_FreshWhenMissing ==
  (~BothAtStartup) =>
     /\ (pc \in ConstructPcs \/ InFirstWait) =>
          /\ op \notin LoadOps
          /\ ddpg.kind # "loaded" /\ vae.kind # "loaded"
     /\ InFirstWait =>
          /\ ddpg = FreshModel /\ vae = FreshModel
          /\ ddpg_skip_episodes = cfg_skip

C5_Witness ==
  /\ startup.ddpg /\ ~startup.vae
  /\ InFirstWait
  /\ cfg_skip > 0

\* C6: in a testing session entered with a checkpoint file missing the
\* controller only prints the notice, samples is_testing and sleeps; the
\* session ends at the sample that returns False and at no other step.
C6_TestingIdle ==
  /\ []((CheckpointMissing /\ pc \in TestPcs \ {"test_start"}) =>
          /\ pc \in TestIdlePcs \cup {"test_finish"}
          /\ op \in {"test_start", "print_no_models", "sample_testing",
                     "sleep", "env"})
  /\ [][(CheckpointMissing /\ pc \in TestIdlePcs /\ pc' # pc) =>
          /\ pc' \in TestIdlePcs \cup {"test_finish"}
          /\ ddpg' = ddpg /\ vae' = vae
          /\ pc = "test_idle_head" =>
               (pc' = IF is_testing THEN "test_idle_sleep" ELSE "test_finish")
          /\ pc' = "test_finish" => (pc = "test_idle_head" /\ ~is_testing)
       ]_vars

C6_Witness ==
  /\ ddpg_file # Absent /\ vae_file = Absent
  /\ pc = "test_idle_head" /\ op = "sleep"

\* C7: until is_autopilot() has been observed True the controller is in
\* construction or in _wait_autopilot and has done no dispatch, learn,
\* predict, reset, step or save; _wait_autopilot returns only from its
\* sample and only when the flag is True.
C7_BlocksUntilArmed ==
  /\ []((~armed_seen) =>
          /\ pc \in ConstructPcs \cup WaitPcs \cup {"raised"}
          /\ pc \in WaitPcs => wait_ret = "run"
          /\ ~run_entered
          /\ session = 0
          /\ op \notin PolicyOps \cup SaveOps
                         \cup {"sample_training", "sample_testing"})
  /\ [][(pc \in WaitPcs /\ pc' \notin WaitPcs) =>
          (pc = "wait_sample" /\ is_autopilot /\ armed_seen')]_vars

C7_Witness ==
  /\ ~armed_seen
  /\ pc = "wait_sleep" /\ op = "sample_autopilot"
  /\ ddpg.kind # "none" /\ vae.kind # "none"

\* a save of this process has written ddpg.pkl and vae.ckpt is not the
\* file of the same save
TornPair == ddpg_file >= 1 /\ vae_file # ddpg_file

\* C8 (as stated): the pair is written atomically, no reachable state has
\* ddpg.pkl of a save without vae.ckpt of the same save.
C8_AtomicPair == ~TornPair

\* C8 (amended): the pair is written by two consecutive saves, policy
\* first.  vae.ckpt of a save is never on disk without ddpg.pkl of the same
\* or a later save, and ddpg.pkl is ahead of vae.ckpt only between line 139
\* and line 140 of the session that writes them, or after the process was
\* terminated there.
C8_PolicyFirst ==
  /\ vae_file >= 1 => ddpg_file >= vae_file
  /\ TornPair =>
       /\ pc \in {"train_save_vae", "killed"}
       /\ ddpg_file = session
       /\ sess_saves_ddpg = 1 /\ sess_saves_vae = 0

C8_Witness == pc = "killed" /\ TornPair /\ vae_file = Absent

\* C9: no learn call follows a save of its session; the saves start only
\* from the loop head with is_training() False; a load happens only at
\* lines 76-77 of construction or lines 147-148 at the start of
\* run_testing, never inside run_training.
C9_NoConcurrentAccess ==
  /\ [][op' = "learn" =>
          (sess_saves_ddpg = 0 /\ sess_saves_vae = 0
           /\ sess_saves_ddpg' = 0 /\ sess_saves_vae' = 0)]_vars
  /\ [][(pc' = "train_save_ddpg" /\ pc # pc') =>
          (pc = "train_head" /\ ~is_training)]_vars
  /\ [][op' \in SaveOps => (pc \in {"train_save_ddpg", "train_save_vae"}
                             /\ wait_ret = "none")]_vars
  /\ [][op' \in LoadOps =>
          /\ pc \in {"init_load_ddpg", "init_load_vae",
                     "test_load_ddpg", "test_load_vae"}
          /\ ~InTraining]_vars
  /\ [][(pc' = "test_load_ddpg" /\ pc # pc') => pc = "test_start"]_vars

C9_Witness ==
  /\ op = "save_vae"
  /\ episode >= 3
  /\ ddpg.kind = "loaded"
  /\ session = 2

\* C10: once run is entered the controller is always inside run (in the
\* dispatcher, run_training or run_testing), never past it; after
\* run_training or run_testing returns the next controller step is the
\* sample of is_training at the head of the dispatch loop.
C10_RunForever ==
  /\ [](run_entered =>
          (pc \in RunPcs \cup TrainPcs \cup TestPcs \/ InTraining))
  /\ [](pc \in RunPcs \cup TrainPcs \cup TestPcs => run_entered)
  /\ [][(pc \in {"train_save_vae", "test_finish"} /\ pc' # pc) =>
          pc' = "run_head"]_vars
  /\ [][(pc = "run_head" /\ pc' # pc) =>
          (op' = "sample_training"
           /\ pc' = IF is_training THEN "train_start"
                                   ELSE "run_sample_testing")]_vars
  /\ [][(pc = "run_sample_testing" /\ pc' # pc) =>
          (op' = "sample_testing"
           /\ pc' = IF is_testing THEN "test_start" ELSE "run_head")]_vars

C10_Witness ==
  /\ run_entered
  /\ pc = "train_start" /\ op = "sample_training"
  /\ session = 1
  /\ ddpg_file = 1 /\ vae_file = 1

\* C11: the controller only reads the mode flags: a step that changes
\* is_training, is_testing or is_autopilot is a step of the environment,
\* which leaves the controller's position and all of its state unchanged.
C11_FlagsReadOnly ==
  [][(envFlags' # envFlags) =>
       /\ op' = "env"
       /\ pc' = pc /\ wait_ret' = wait_ret
       /\ files' = files /\ models' = models]_vars

C11_Witness ==
  /\ op = "test_finish" /\ pc = "run_head"
  /\ is_training /\ is_autopilot /\ ~is_testing
  /\ session >= 1

SampleOps == {"sample_training", "sample_testing", "sample_autopilot"}

\* C12 (as stated): every sample of a mode flag is preceded by a sleep
\* since the previous sample, in every loop, the dispatch loop included.
C12_SleepBeforeSample == [][op' \in SampleOps => slept]_vars

\* C12 (amended): only the sample of is_autopilot (line 179), the
\* re-evaluation of is_testing after the sleep of the idle loop (line 165)
\* and the re-evaluation of is_testing after a testing episode (line 149)
\* follow a sleep.  The samples of the dispatch loop (lines 119, 121) and of
\* the head of the training loop (line 129) always follow the previous
\* sample without a sleep: run polls without sleeping when no mode is set.
C12_SleepOnlyInInnerLoops ==
  /\ [][op' = "sample_autopilot" => (slept /\ pc = "wait_sample")]_vars
  /\ [][(pc' = "wait_sample" /\ pc' # pc) => (op' = "sleep" /\ slept')]_vars
  /\ [][(pc = "test_idle_sleep" /\ pc' # pc) =>
          (pc' = "test_idle_head" /\ op' = "sleep" /\ slept')]_vars
  /\ [][(pc = "test_step" /\ pc' = "test_head") => slept]_vars
  /\ [][(pc \in {"run_head", "run_sample_testing", "train_head"}
           /\ pc' # pc) => (op' \in SampleOps /\ ~slept /\ ~slept')]_vars

C12_Witness ==
  /\ pc = "run_head" /\ op = "sample_testing"
  /\ ~is_training /\ ~is_testing
  /\ ~slept
  /\ session >= 1

\* C13: after every learn call the controller is in _wait_autopilot until
\* is_autopilot() returns True; the loop head, the next learn call and the
\* saves of a session that ran an episode are reached only after that
\* observation, and a learn call is entered only from the sample of
\* is_training at line 129.
C13_WaitBetweenEpisodes ==
  /\ []((pc \in TrainPcs /\ episode > 1) => armed_since_learn)
  /\ []((InTraining /\ episode > 1 /\ ~armed_since_learn) =>
          (pc \in WaitPcs /\ wait_ret = "train"))
  /\ [][op' = "learn" =>
          /\ pc = "train_learn"
          /\ pc' = "wait_sleep" /\ wait_ret' = "train"
          /\ ~armed_since_learn']_vars
  /\ [][(pc' = "train_learn" /\ pc' # pc) =>
          (pc = "train_head" /\ is_training /\ op' = "sample_training")]_vars
  /\ [][(op' \in SaveOps /\ episode > 1) => armed_since_learn]_vars

C13_Witness ==
  /\ op = "learn" /\ learn_ep = 2 /\ learn_sess = session
  /\ ~is_autopilot
  /\ pc = "wait_sleep"

TestRunPcs == {"test_head", "test_reset", "test_sleep", "test_predict",
               "test_step"}

\* C14: a testing session with both checkpoints loads the policy, then the
\* perception module, once each and before anything else; from then on
\* self.ddpg and self.vae are the models of the two files and are not
\* rebound; an episode is reset, then sleep, predict, step repeated, and it
\* returns to the loop head at the first step whose done is True.
C14_TestingEpisodes ==
  /\ [](pc = "test_load_ddpg" =>
          (sess_loads_ddpg = 0 /\ sess_loads_vae = 0 /\ ~CheckpointMissing))
  /\ [](pc = "test_load_vae" =>
          (sess_loads_ddpg = 1 /\ sess_loads_vae = 0
           /\ ddpg = LoadedModel(ddpg_file)))
  /\ [](pc \in TestRunPcs =>
          /\ sess_loads_ddpg = 1 /\ sess_loads_vae = 1
          /\ ddpg = LoadedModel(ddpg_file)
          /\ vae = LoadedModel(vae_file)
          /\ test_entry_both /\ ~CheckpointMissing)
  /\ [][(pc \in TestRunPcs) => (ddpg' = ddpg /\ vae' = vae)]_vars
  /\ [][(pc = "test_head" /\ pc' # pc) =>
          pc' = IF is_testing THEN "test_reset" ELSE "test_finish"]_vars
  /\ [][(pc = "test_reset" /\ pc' # pc) =>
          (op' = "reset" /\ pc' = "test_sleep")]_vars
  /\ [][(pc = "test_sleep" /\ pc' # pc) =>
          (op' = "sleep" /\ pc' = "test_predict")]_vars
  /\ [][(pc = "test_predict" /\ pc' # pc) =>
          (op' = "predict" /\ pc' = "test_step")]_vars
  /\ [][(pc = "test_step" /\ pc' # pc) =>
          (op' = "step"
           /\ pc' = IF done' THEN "test_head" ELSE "test_sleep")]_vars
  /\ [][op' \in {"reset", "predict", "step"} => pc \in TestRunPcs]_vars

C14_Witness ==
  /\ ~BothAtStartup
  /\ pc = "test_sleep" /\ op = "step" /\ ~done
  /\ ddpg = LoadedModel(1) /\ vae = LoadedModel(1)
  /\ sess_loads_ddpg = 1 /\ sess_loads_vae = 1

\* C15: run_training starts every session with episode = 1 and
\* do_ddpg_training = False; self.ddpg_skip_episodes does not change after
\* construction; so a controller constructed without both checkpoints
\* passes do_ddpg_training = (episode > configured skip count) in every
\* session, also after a save or a reload by run_testing.
C15_SkipEverySession ==
  /\ [][(pc = "train_start" /\ pc' # pc) =>
          (episode' = 1 /\ do_ddpg_training' = FALSE)]_vars
  /\ [][(pc \notin ConstructPcs) =>
          ddpg_skip_episodes' = ddpg_skip_episodes]_vars
  /\ []((~BothAtStartup /\ pc \notin ConstructPcs \cup {"raised"}) =>
          ddpg_skip_episodes = cfg_skip)
  /\ []((~BothAtStartup /\ learn_ep > 0) =>
          (learn_arg <=> learn_ep > cfg_skip))
  /\ [][(op' = "learn" /\ session' > learn_sess) => learn_ep' = 1]_vars

C15_Witness ==
  /\ ~BothAtStartup
  /\ cfg_skip >= 1
  /\ session = 2 /\ learn_sess = 2
  /\ op = "learn" /\ learn_ep = 1 /\ ~learn_arg
  /\ ddpg = LoadedModel(1)

\* C16: run_training is entered on the sample of line 119 and samples
\* is_training again at line 129; when that sample is False the saves
\* follow, whatever the number of episodes; a session that returns without
\* a learn call has made both saves and the two files are the ones it
\* wrote, a pair that existed before included.
C16_EmptySessionSaves ==
  /\ [][(pc' = "train_start" /\ pc' # pc) =>
          (pc = "run_head" /\ is_training /\ op' = "sample_training")]_vars
  /\ [][(pc = "train_head" /\ ~is_training /\ pc' # pc) =>
          (op' = "sample_training" /\ pc' = "train_save_ddpg")]_vars
  /\ [](pc = "train_save_ddpg" => (ddpg_file # session /\ vae_file # session))
  /\ []((session > 0 /\ ~InTraining /\ learn_sess < session) =>
          /\ ddpg_file = session /\ vae_file = session
          /\ sess_saves_ddpg = 1 /\ sess_saves_vae = 1
          /\ episode = 1)

C16_Witness ==
  /\ BothAtStartup
  /\ pc = "run_head" /\ op = "save_vae"
  /\ session = 1 /\ learn_sess = 0 /\ learn_ep = 0
  /\ ddpg_file = 1 /\ vae_file = 1
  /\ ddpg = LoadedModel(Preexisting)

EpisodePcs == {"test_sleep", "test_predict", "test_step"}

\* C17: inside a testing episode the controller only sleeps, predicts and
\* steps, whatever the mode flags are; it leaves the episode only by a
\* step whose done is True, and run_testing returns only from a loop head
\* that sampled is_testing False; so while no step reports done the
\* controller stays in the episode.
C17_EpisodeIgnoresMode ==
  /\ [][(pc \in EpisodePcs /\ pc' # pc) =>
          /\ op' \in {"sleep", "predict", "step"}
          /\ pc' \in EpisodePcs \cup {"test_head"}]_vars
  /\ [][(pc \in EpisodePcs /\ pc' \notin EpisodePcs) =>
          (pc = "test_step" /\ op' = "step" /\ done'
           /\ pc' = "test_head")]_vars
  /\ [][(pc = "test_step" /\ pc' # pc) =>
          (pc' = IF done' THEN "test_head" ELSE "test_sleep")]_vars
  /\ [][(pc' = "test_finish" /\ pc' # pc) =>
          (pc \in {"test_head", "test_idle_head"} /\ ~is_testing)]_vars
  /\ [][(pc \in TestPcs /\ pc' \notin TestPcs) =>
          (pc = "test_finish" /\ pc' = "run_head")]_vars
  /\ []((pc \in EpisodePcs) =>
          ([](op = "step" => ~done) => [](pc \in EpisodePcs)))

C17_Witness ==
  /\ pc = "test_sleep" /\ op = "step" /\ ~done
  /\ ~is_testing /\ is_training

\* what the collaborators and the files hold
collabState == <<files, models, learnHist, saveHist, loadHist, done,
                 ddpg_skip_episodes>>

\* C18: the dispatcher decides on the sampled flags only: is_training
\* sampled True enters run_training whatever is_testing is; is_training
\* sampled False and then is_testing sampled True enters run_testing; both
\* sampled False starts the next iteration; the dispatcher's own steps
\* invoke no collaborator operation.
C18_DispatchOnFlags ==
  /\ [][(pc = "run_head" /\ pc' # pc) =>
          /\ op' = "sample_training"
          /\ is_training => pc' = "train_start"
          /\ ~is_training => pc' = "run_sample_testing"
          /\ collabState' = collabState]_vars
  /\ [][(pc = "run_sample_testing" /\ pc' # pc) =>
          /\ op' = "sample_testing"
          /\ is_testing => pc' = "test_start"
          /\ ~is_testing => pc' = "run_head"
          /\ collabState' = collabState]_vars
  /\ [][(pc' = "train_start" /\ pc' # pc) =>
          (pc = "run_head" /\ is_training)]_vars
  /\ [][(pc' = "test_start" /\ pc' # pc) =>
          (pc = "run_sample_testing" /\ is_testing)]_vars
  /\ [](pc = "run_sample_testing" =>
          op \in {"sample_training", "env"})

C18_Witness ==
  /\ pc = "train_start" /\ op = "sample_training"
  /\ is_training /\ is_testing
  /\ session = 1

\* C19 (as stated): with both checkpoints present and is_testing sampled
\* False by the dispatcher, the "No precompiled models found." notice is
\* printed.
C19_NoticeWhenNotTesting ==
  [][(pc = "run_sample_testing" /\ ~is_testing /\ ~CheckpointMissing
        /\ pc' # pc) =>
       (pc' = "test_idle_msg" \/ op' = "print_no_models")]_vars

\* C19 (amended): the notice is printed only inside run_testing, which
\* run enters only on is_testing sampled True, and only when a checkpoint
\* file is missing; with both checkpoints present it is never printed.
C19_NoticeOnlyWhenMissing ==
  /\ [][op' = "print_no_models" =>
          (pc = "test_idle_msg" /\ CheckpointMissing /\ ~test_entry_both)]_vars
  /\ []((pc \in TestIdlePcs \/ op = "print_no_models") => CheckpointMissing)
  /\ [][(pc = "test_start" /\ pc' # pc) =>
          (pc' = IF CheckpointMissing THEN "test_idle_msg"
                                      ELSE "test_load_ddpg")]_vars
  /\ [][(pc' = "test_idle_msg" /\ pc' # pc) => pc = "test_start"]_vars
  /\ [][(pc' = "test_start" /\ pc' # pc) => is_testing]_vars

C19_Witness ==
  /\ op = "print_no_models" /\ pc = "test_idle_head"
  /\ ddpg_file = Absent /\ vae_file = Preexisting

====
